---- MODULE Spec2Model ----
(***************************************************************************)
(* odoo-addons-path: detection of a codebase layout (detector.py) and the  *)
(* resolution of the addons path (main.py), over a bounded filesystem.     *)
(*                                                                         *)
(* A path is the sequence of its parts (pathlib's Path.parts, without the  *)
(* leading "/"); every path of the model is absolute.  A file's content is *)
(* the sequence of its lines.                                              *)
(***************************************************************************)
EXTENDS Integers, Sequences, FiniteSets, TLC

VARIABLES
    codebase,        \* the codebase root handed to get_addons_path
    dirs,            \* filesystem: the directories that exist
    files,           \* filesystem: the regular files that exist
    content,         \* filesystem: the lines of each fingerprint file
    unreadable,      \* filesystem: the files open() refuses (EACCES)
    links,           \* filesystem: symbolic links, link path -> target path
    addons_dir,      \* argument: list of override directories (<<>> when none)
    odoo_dir,        \* argument: override of the Odoo directory, or None
    pc,              \* position inside get_addons_path
    detector_name,   \* label returned by the detector chain
    detected_paths,  \* dict returned by the detector chain
    all_paths,       \* the two categories being accumulated
    addons_path,     \* returned value: the ordered list that is joined by ","
    error,           \* the exception that left get_addons_path, "" when none
    run,             \* number of the current invocation on this tree
    prev             \* outcome of the previous invocation on this tree

vars == << codebase, dirs, files, content, unreadable, links, addons_dir, odoo_dir,
           pc, detector_name, detected_paths, all_paths, addons_path, error, run, prev >>

fsvars == << codebase, dirs, files, content, unreadable, links >>

argvars == << addons_dir, odoo_dir >>

(***************************************************************************)
(* Bounds of the model.                                                    *)
(***************************************************************************)
MaxRuns == 2

MaxOverrides == 2

MaxManifests == 3

MaxExtras == 2

(***************************************************************************)
(* Names and paths.                                                        *)
(***************************************************************************)
None == << >>

MANIFEST == "__manifest__.py"

\* Every name of the model, in ascending code-point order: Python compares
\* str values (sorted(key=p.name), Path.__lt__) code point by code point.
NameOrder ==
    << ".copier-answers.yml", ".trobz", "Dockerfile", "README.md", "Zeta",
       "__manifest__.py", "a", "addons", "alias", "b", "base", "custom",
       "custom-repo", "dev-src", "docs", "enterprise", "external-src",
       "local-src", "mod", "odoo", "opt", "paid-modules", "pkg", "private",
       "proj", "project", "setup", "src", "srv", "sub", "themes", "user", "x" >>

Ord(n) == CHOOSE i \in 1..Len(NameOrder) : NameOrder[i] = n

NameLt(a, b) == Ord(a) < Ord(b)

\* Path.name
Name(p) == IF p = << >> THEN "" ELSE p[Len(p)]

\* Path.parent
Parent(p) == IF p = << >> THEN << >> ELSE SubSeq(p, 1, Len(p) - 1)

IsPrefix(p, q) == Len(p) <= Len(q) /\ SubSeq(q, 1, Len(p)) = p

Prefixes(p) == { SubSeq(p, 1, k) : k \in 1..Len(p) }

Range(s) == { s[i] : i \in 1..Len(s) }

\* Path.__lt__: comparison of the parts, left to right
RECURSIVE PathLt(_, _)
PathLt(p, q) ==
    IF q = << >> THEN FALSE
    ELSE IF p = << >> THEN TRUE
    ELSE IF Head(p) = Head(q) THEN PathLt(Tail(p), Tail(q))
    ELSE NameLt(Head(p), Head(q))

\* sorted(manifests): the paths of a set in ascending order
RECURSIVE SortPaths(_)
SortPaths(S) ==
    IF S = {} THEN << >>
    ELSE LET m == CHOOSE x \in S : \A y \in S \ {x} : PathLt(x, y)
         IN  << m >> \o SortPaths(S \ {m})

\* the orders in which a set can be enumerated (iterdir, list(set))
Orderings(S) ==
    { s \in [1..Cardinality(S) -> S] : \A i, j \in 1..Cardinality(S) : s[i] = s[j] => i = j }

(***************************************************************************)
(* Filesystem primitives used by the program.                              *)
(***************************************************************************)
\* Path.resolve(): symbolic links are replaced by their targets
Resolve(p) ==
    IF \E l \in DOMAIN links : IsPrefix(l, p)
    THEN LET l == CHOOSE l \in DOMAIN links : IsPrefix(l, p)
         IN  links[l] \o SubSeq(p, Len(l) + 1, Len(p))
    ELSE p

\* Path.is_dir(), Path.is_file(): follow symbolic links
IsDir(p) == Resolve(p) \in dirs

IsFile(p) == Resolve(p) \in files

\* Path.iterdir(): the entries of p, in no particular order
Entries(p) ==
    { p \o << e[Len(e)] >> :
        e \in { x \in dirs \cup files \cup DOMAIN links : x # << >> /\ Parent(x) = Resolve(p) } }

\* p.glob("**/__manifest__.py"): every manifest below p, spelled below p
Glob(p) ==
    LET rp == Resolve(p)
    IN  { p \o SubSeq(f, Len(rp) + 1, Len(f)) :
            f \in { g \in files : IsPrefix(rp, g) /\ Name(g) = MANIFEST } }

(***************************************************************************)
(* main.py: _add_to_path and _process_paths.                               *)
(***************************************************************************)
\* sorted() is stable: d goes after every element whose name is not greater
RECURSIVE InsertByName(_, _)
InsertByName(s, d) ==
    IF s = << >> THEN << d >>
    ELSE IF NameLt(Name(d), Name(Head(s))) THEN << d >> \o s
    ELSE << Head(s) >> \o InsertByName(Tail(s), d)

\* mutant of SortedByName: sorted(dirs_to_add), the key forgotten
SortedByPath(ds) == SortPaths(Range(ds))

\* sorted(dirs_to_add, key=lambda p: p.name)
RECURSIVE SortedByName(_)
SortedByName(ds) ==
    IF ds = << >> THEN << >>
    ELSE InsertByName(SortedByName(SubSeq(ds, 1, Len(ds) - 1)), ds[Len(ds)])

\* the loop of _add_to_path: existing directories, resolved, not yet in path_list
RECURSIVE AppendDirs(_, _)
AppendDirs(path_list, ds) ==
    IF ds = << >> THEN path_list
    ELSE LET d == Head(ds)
         IN  AppendDirs(IF IsDir(d) /\ Resolve(d) \notin Range(path_list)
                        THEN Append(path_list, Resolve(d))
                        ELSE path_list,
                        Tail(ds))

add_to_path(path_list, dirs_to_add, is_sorted) ==
    AppendDirs(path_list, IF is_sorted THEN SortedByName(dirs_to_add) ELSE dirs_to_add)

\* the inner loop of _process_paths: one manifest after the other
RECURSIVE ScanManifests(_, _)
ScanManifests(result, manifests) ==
    IF manifests = << >> THEN result
    ELSE LET repo_path == Parent(Parent(Head(manifests)))
         IN  ScanManifests(IF repo_path \notin Range(result)
                           THEN Append(result, repo_path)
                           ELSE result,
                           Tail(manifests))

\* the outer loop of _process_paths: one directory after the other
RECURSIVE ScanDirs(_, _)
ScanDirs(result, ps) ==
    IF ps = << >> THEN result
    ELSE ScanDirs(IF IsDir(Head(ps))
                  THEN ScanManifests(result, SortPaths(Glob(Head(ps))))
                  ELSE result,
                  Tail(ps))

\* mutant of OdooDirCandidates: "elif" instead of the second "if"
OdooDirCandidatesExclusive(detected, odir) ==
    IF odir # None
    THEN << odir \o << "addons" >>, odir \o << "odoo", "addons" >> >>
    ELSE detected.odoo_dir

\* the candidates of the odoo_dir category, in the order they are offered
OdooDirCandidates(detected, odir) ==
    (IF odir # None
     THEN << odir \o << "addons" >>, odir \o << "odoo", "addons" >> >>
     ELSE << >>)
    \o detected.odoo_dir

\* mutant of IsSorted: is_sorted=True
IsSortedAlways(adirs) == TRUE

\* is_sorted=not bool(addons_dir)
IsSorted(adirs) == adirs = << >>

process_paths(paths, detected, adirs, odir) ==
    [ odoo_dir |-> add_to_path(paths.odoo_dir, OdooDirCandidates(detected, odir), FALSE),
      addon_repositories |->
          add_to_path(paths.addon_repositories,
                      ScanDirs(<< >>, adirs \o detected.addons_dirs \o detected.addons_dir),
                      IsSorted(adirs)) ]

\* detected_paths = {}: every .get() finds nothing
NoDetectedPaths == [ addons_dirs |-> << >>, addons_dir |-> << >>, odoo_dir |-> << >> ]

NoPaths == [ odoo_dir |-> << >>, addon_repositories |-> << >> ]

(***************************************************************************)
(* detector.py: the fingerprint files.                                     *)
(***************************************************************************)
C2CLabelSingle == "LABEL maintainer='Camptocamp'"

C2CLabelDouble == "LABEL maintainer=\"Camptocamp\""

\* the documents .copier-answers.yml holds in the model
AnswersDoodba == << "_src_path: gh:Tecnativa/doodba-copier-template" >>

AnswersOther == << "_src_path: gh:oca/oca-addons-repo-template" >>

AnswersNoSrcPath == << "project_name: demo" >>

AnswersIntSrcPath == << "_src_path: 42" >>

AnswersEmpty == << >>

AnswersList == << "- doodba" >>

AnswersScalar == << "doodba" >>

AnswersInvalid == << "_src_path: [doodba" >>

\* yaml.safe_load(f): the Python value the document decodes to
safe_load(doc) ==
    CASE doc = AnswersDoodba ->
           [ type |-> "dict", src_type |-> "str", src |-> "gh:Tecnativa/doodba-copier-template" ]
      [] doc = AnswersOther ->
           [ type |-> "dict", src_type |-> "str", src |-> "gh:oca/oca-addons-repo-template" ]
      [] doc = AnswersNoSrcPath -> [ type |-> "dict", src_type |-> "absent", src |-> "" ]
      [] doc = AnswersIntSrcPath -> [ type |-> "dict", src_type |-> "int", src |-> "42" ]
      [] doc = AnswersEmpty -> [ type |-> "NoneType", src_type |-> "absent", src |-> "" ]
      [] doc = AnswersList -> [ type |-> "list", src_type |-> "absent", src |-> "" ]
      [] doc = AnswersScalar -> [ type |-> "str", src_type |-> "absent", src |-> "" ]
      [] OTHER -> [ type |-> "YAMLError", src_type |-> "absent", src |-> "" ]

\* "doodba" in s, for the strings of the model
ContainsDoodba(s) == s \in { "gh:Tecnativa/doodba-copier-template", "doodba" }

\* what DoodbaDetector.detect does with an existing answers file, lines 61-83:
\* the exception that escapes, "match", or "no match"
DoodbaAnswers(f) ==
    IF f \in unreadable THEN "PermissionError"
    ELSE LET answers == safe_load(content[f])
         IN  CASE answers.type = "YAMLError" -> "no match"
               [] answers.type # "dict" -> "AttributeError"
               [] answers.src_type = "absent" -> "no match"
               [] answers.src_type # "str" -> "TypeError"
               [] OTHER -> IF ContainsDoodba(answers.src) THEN "match" ELSE "no match"

\* C2CDetector._find_docker_file
find_docker_file(cb) ==
    IF IsFile(cb \o << "odoo", "Dockerfile" >>) THEN cb \o << "odoo", "Dockerfile" >>
    ELSE IF IsFile(cb \o << "Dockerfile" >>) THEN cb \o << "Dockerfile" >>
    ELSE None

\* C2CDetector._is_c2c_dockerfile
is_c2c_dockerfile(docker_file) ==
    IF docker_file \in unreadable THEN FALSE
    ELSE C2CLabelSingle \in Range(content[docker_file])
         \/ C2CLabelDouble \in Range(content[docker_file])

\* C2CDetector._get_legacy_config
get_legacy_config(cb, addons_dirs) ==
    [ addons_dirs |-> addons_dirs,
      addons_dir |-> << cb \o << "odoo", "local-src" >> >>,
      odoo_dir |-> << cb \o << "odoo", "src", "addons" >>,
                      cb \o << "odoo", "src", "odoo", "addons" >> >> ]

\* C2CDetector._get_new_config
get_new_config(cb, addons_dirs) ==
    [ addons_dirs |-> addons_dirs,
      addons_dir |-> SelectSeq(<< cb \o << "odoo", "dev-src" >>,
                                  cb \o << "odoo", "paid-modules" >> >>, IsDir),
      odoo_dir |-> SelectSeq(<< cb \o << "odoo", "addons" >> >>, IsDir) ]

\* GenericDetector.detect, lines 229-238: the manifests that are kept
GenericManifests(cb) ==
    { m \in Glob(cb) :
        /\ "setup" \notin Range(m)
        /\ Cardinality({ i \in 1..Len(m) : m[i] = MANIFEST }) <= 1 }

\* mutant of next_detector: the chain linked in the order the classes are defined
next_detector_by_class_order(d) ==
    CASE d = "trobz" -> "doodba"
      [] d = "doodba" -> "c2c"
      [] d = "c2c" -> "odoo_sh"
      [] d = "odoo_sh" -> "fallback"
      [] OTHER -> "none"

\* trobz.set_next(c2c).set_next(odoo_sh).set_next(doodba).set_next(fallback)
next_detector(d) ==
    CASE d = "trobz" -> "c2c"
      [] d = "c2c" -> "odoo_sh"
      [] d = "odoo_sh" -> "doodba"
      [] d = "doodba" -> "fallback"
      [] OTHER -> "none"

(***************************************************************************)
(* The trees the model runs on, relative to the codebase root: the layouts *)
(* of tests/test_get_addons_path.py, their unions, the same with a         *)
(* directory removed or unrelated entries added, fingerprint files of      *)
(* every kind, and trees of scattered manifests.                           *)
(***************************************************************************)
Layouts == { "trobz", "c2c", "c2c-new", "doodba", "odoo-sh" }

C2CDockerfile == << "FROM ghcr.io/camptocamp/odoo-project:17.0", C2CLabelSingle >>

C2CDockerfileDouble == << "FROM ghcr.io/camptocamp/odoo-project:17.0", C2CLabelDouble >>

OtherDockerfile == << "FROM python:3.12", "LABEL maintainer='Acme'" >>

\* a module directory holds a manifest
Module(d) == d \o << MANIFEST >>

Tree(ds, fs, ct, ur) == [ dirs |-> ds, files |-> fs, content |-> ct, unreadable |-> ur ]

\* every directory implied by the leaves of a tree
Closed(t) ==
    [ t EXCEPT !.dirs = UNION { Prefixes(d) : d \in t.dirs }
                        \cup UNION { Prefixes(Parent(f)) : f \in t.files } ]

Fixture(layout) ==
    CASE layout = "trobz" ->
           Tree({ << ".trobz" >>, << "odoo", "odoo", "addons" >> },
                { Module(<< "addons", "custom-repo", "mod" >>),
                  Module(<< "project", "mod" >>),
                  Module(<< "odoo", "addons", "base" >>) },
                << >>, {})
      [] layout = "c2c" ->
           Tree({ << "odoo", "src", "odoo", "addons" >> },
                { << "odoo", "Dockerfile" >>,
                  Module(<< "odoo", "src", "addons", "base" >>),
                  Module(<< "odoo", "external-src", "custom-repo", "mod" >>),
                  Module(<< "odoo", "local-src", "mod" >>) },
                << "odoo", "Dockerfile" >> :> C2CDockerfile, {})
      [] layout = "c2c-new" ->
           Tree({},
                { << "Dockerfile" >>,
                  Module(<< "odoo", "addons", "base" >>),
                  Module(<< "odoo", "external-src", "custom-repo", "mod" >>),
                  Module(<< "odoo", "dev-src", "mod" >>),
                  Module(<< "odoo", "paid-modules", "mod" >>) },
                << "Dockerfile" >> :> C2CDockerfile, {})
      [] layout = "doodba" ->
           Tree({ << "odoo", "custom", "src", "odoo", "odoo", "addons" >> },
                { << ".copier-answers.yml" >>,
                  Module(<< "odoo", "custom", "src", "odoo", "addons", "base" >>),
                  Module(<< "odoo", "custom", "src", "custom-repo", "mod" >>),
                  Module(<< "odoo", "custom", "src", "private", "mod" >>) },
                << ".copier-answers.yml" >> :> AnswersDoodba, {})
      [] OTHER ->
           Tree({ << "odoo", "odoo", "addons" >> },
                { Module(<< "enterprise", "mod" >>),
                  Module(<< "themes", "mod" >>),
                  Module(<< "user", "local-src", "mod" >>),
                  Module(<< "odoo", "addons", "base" >>) },
                << >>, {})

EmptyTree == Tree({}, {}, << >>, {})

Union(t, u) ==
    Tree(t.dirs \cup u.dirs, t.files \cup u.files, t.content @@ u.content,
         t.unreadable \cup u.unreadable)

RECURSIVE UnionAll(_)
UnionAll(S) ==
    IF S = {} THEN EmptyTree
    ELSE LET l == CHOOSE x \in S : TRUE
         IN  Union(Closed(Fixture(l)), UnionAll(S \ {l}))

\* the tree without directory d and everything below it
Remove(t, d) ==
    IF d = None THEN t
    ELSE LET fs == { f \in t.files : ~IsPrefix(d, f) }
         IN  Tree({ x \in t.dirs : ~IsPrefix(d, x) }, fs,
                  [ f \in DOMAIN t.content \cap fs |-> t.content[f] ],
                  t.unreadable \cap fs)

\* the directory a detector lists with iterdir
ListedDir(layout) ==
    CASE layout = "trobz" -> << "addons" >>
      [] layout = "c2c" -> << "odoo", "external-src" >>
      [] layout = "c2c-new" -> << "odoo", "external-src" >>
      [] layout = "doodba" -> << "odoo", "custom", "src" >>
      [] OTHER -> << "user" >>

\* entries that belong to no convention
UnrelatedFiles(layout) == { << "README.md" >>, ListedDir(layout) \o << "README.md" >> }

UnrelatedDirs == { << "docs" >> }

UnrelatedSets(layout) ==
    { S \in SUBSET (UnrelatedFiles(layout) \cup UnrelatedDirs) : Cardinality(S) <= MaxExtras }

WithUnrelated(t, layout, S) ==
    Closed(Tree(t.dirs \cup (S \cap UnrelatedDirs), t.files \cup (S \ UnrelatedDirs),
                t.content, t.unreadable))

\* the subdirectories that are no part of a layout's fingerprint
Removable(layout) ==
    CASE layout = "trobz" -> { << "addons" >>, << "project" >>, << "odoo" >> }
      [] layout = "c2c" -> { << "odoo", "external-src" >>, << "odoo", "local-src" >> }
      [] layout = "c2c-new" -> { << "odoo", "external-src" >>, << "odoo", "dev-src" >>,
                                 << "odoo", "paid-modules" >>, << "odoo", "addons" >> }
      [] layout = "doodba" -> { << "odoo", "custom", "src", "private" >>,
                                << "odoo", "custom", "src", "custom-repo" >>,
                                << "odoo", "custom", "src", "odoo" >> }
      [] OTHER -> { << "user", "local-src" >>, << "odoo", "addons" >>, << "odoo", "odoo" >> }

FixtureTree(layout, S, d) == Remove(WithUnrelated(Closed(Fixture(layout)), layout, S), d)

FixtureTrees ==
    { FixtureTree(l[1], l[2], l[3]) :
        l \in UNION { { << layout, S, d >> :
                          S \in UnrelatedSets(layout),
                          d \in Removable(layout) \cup { None } } : layout \in Layouts } }

OverlapTrees == { UnionAll(S) : S \in SUBSET Layouts }

\* a second repository, whose name sorts before the lower-case ones
TrobzTwoRepos ==
    Closed(Union(Fixture("trobz"),
                 Tree({}, { Module(<< "addons", "Zeta", "mod" >>) }, << >>, {})))

AnswersDocs ==
    { AnswersDoodba, AnswersOther, AnswersNoSrcPath, AnswersIntSrcPath, AnswersEmpty,
      AnswersList, AnswersScalar, AnswersInvalid }

WithContent(t, f, doc, denied) ==
    [ t EXCEPT !.content = (f :> doc) @@ t.content,
               !.unreadable = IF denied THEN { f } ELSE {} ]

DockerfileOf(layout) ==
    IF layout = "c2c" THEN << "odoo", "Dockerfile" >> ELSE << "Dockerfile" >>

FingerprintTrees ==
    { WithContent(Closed(Fixture("doodba")), << ".copier-answers.yml" >>, doc, FALSE) :
        doc \in AnswersDocs }
    \cup { WithContent(Closed(Fixture("doodba")), << ".copier-answers.yml" >>, AnswersDoodba, TRUE) }
    \cup { WithContent(Closed(Fixture(l)), DockerfileOf(l), doc, FALSE) :
             l \in { "c2c", "c2c-new" }, doc \in { C2CDockerfileDouble, OtherDockerfile } }
    \cup { WithContent(Closed(Fixture("c2c")), << "odoo", "Dockerfile" >>, C2CDockerfile, TRUE) }

\* module directories scattered in a tree of no convention
ScatteredModules ==
    { << "a", "x", "mod" >>, << "b", "x", "mod" >>, << "a", "x", "setup", "pkg" >>,
      << "a", "x", "mod", "sub" >>, << "odoo", "addons", "base" >> }

ScatteredTrees ==
    { Closed(Tree({}, { Module(d) : d \in S }, << >>, {})) :
        S \in { X \in SUBSET ScatteredModules : Cardinality(X) <= MaxManifests } }

RelTrees ==
    FixtureTrees \cup OverlapTrees \cup { TrobzTwoRepos } \cup FingerprintTrees
    \cup ScatteredTrees

Roots == { << "srv", "proj" >>, << "srv", "setup", "proj" >> }

\* an Odoo checkout outside the codebase, and a symbolic link to <codebase>/project
ExternalOdoo == << "opt", "odoo" >>

Alias == << "opt", "alias" >>

ExternalTree ==
    Closed(Tree({ ExternalOdoo \o << "odoo", "addons" >> },
                { Module(ExternalOdoo \o << "addons", "base" >>) }, << >>, {}))

\* the directories a caller passes as --addons-dir
OverrideDirs(cb) == { cb \o << "project" >>, cb \o << "addons" >>, Alias }

OverrideLists(cb) ==
    UNION { Orderings(S) :
              S \in { X \in SUBSET OverrideDirs(cb) : Cardinality(X) <= MaxOverrides } }

OdooDirs(cb) == { None, cb \o << "odoo" >>, ExternalOdoo }

(***************************************************************************)
(* The state after the caller built the arguments of get_addons_path.      *)
(***************************************************************************)
Under(cb, S) == { cb \o x : x \in S }

NoOutcome == [ status |-> "none", addons_path |-> << >>, error |-> "" ]

Init ==
    /\ \E cb \in Roots, t \in RelTrees :
         /\ codebase = cb
         /\ dirs = Under(cb, t.dirs) \cup Prefixes(cb) \cup ExternalTree.dirs
         /\ files = Under(cb, t.files) \cup ExternalTree.files
         /\ content = [ f \in Under(cb, DOMAIN t.content) |->
                          t.content[SubSeq(f, Len(cb) + 1, Len(f))] ]
         /\ unreadable = Under(cb, t.unreadable)
         /\ links = (Alias :> (cb \o << "project" >>))
         /\ addons_dir \in OverrideLists(cb)
         /\ odoo_dir \in OdooDirs(cb)
    /\ pc = "start"
    /\ detector_name = ""
    /\ detected_paths = NoDetectedPaths
    /\ all_paths = NoPaths
    /\ addons_path = << >>
    /\ error = ""
    /\ run = 1
    /\ prev = NoOutcome

(***************************************************************************)
(* get_addons_path, lines 77-84: detection runs only without addons_dir.   *)
(***************************************************************************)
Start ==
    /\ pc = "start"
    /\ pc' = IF addons_dir = << >> THEN "trobz" ELSE "process"
    /\ UNCHANGED << fsvars, argvars, detector_name, detected_paths, all_paths,
                    addons_path, error, run, prev >>

\* a detector returns (name, paths)
Detected(name, paths) ==
    /\ detector_name' = name
    /\ detected_paths' = paths
    /\ pc' = "process"
    /\ UNCHANGED << fsvars, argvars, all_paths, addons_path, error, run, prev >>

\* a detector calls super().detect(), which calls the next detector
Declined(d) ==
    /\ pc' = next_detector(d)
    /\ UNCHANGED << fsvars, argvars, detector_name, detected_paths, all_paths,
                    addons_path, error, run, prev >>

\* an exception leaves detect, and get_addons_path with it
Raised(e) ==
    /\ pc' = "raised"
    /\ error' = e
    /\ UNCHANGED << fsvars, argvars, detector_name, detected_paths, all_paths,
                    addons_path, run, prev >>

TrobzDetector ==
    /\ pc = "trobz"
    /\ IF IsDir(codebase \o << ".trobz" >>)
       THEN IF IsDir(codebase \o << "addons" >>)
            THEN \E listing \in Orderings(Entries(codebase \o << "addons" >>)) :
                   Detected("Trobz",
                            [ addons_dirs |-> SelectSeq(listing, IsDir),
                              addons_dir |-> << codebase \o << "project" >> >>,
                              odoo_dir |-> << codebase \o << "odoo", "addons" >>,
                                              codebase \o << "odoo", "odoo", "addons" >> >> ])
            ELSE Raised("FileNotFoundError")
       ELSE Declined("trobz")

C2CDetector ==
    /\ pc = "c2c"
    /\ LET docker_file == find_docker_file(codebase)
           external_src_dir == codebase \o << "odoo", "external-src" >>
       IN  IF docker_file = None \/ ~is_c2c_dockerfile(docker_file)
           THEN Declined("c2c")
           ELSE \E listing \in Orderings(IF IsDir(external_src_dir)
                                         THEN Entries(external_src_dir) ELSE {}) :
                  LET addons_dirs == SelectSeq(listing, IsDir)
                  IN  IF IsDir(codebase \o << "odoo", "src" >>)
                      THEN Detected("Camptocamp (Legacy)",
                                    get_legacy_config(codebase, addons_dirs))
                      ELSE Detected("Camptocamp", get_new_config(codebase, addons_dirs))

OdooShDetector ==
    /\ pc = "odoo_sh"
    /\ IF /\ IsDir(codebase \o << "enterprise" >>)
          /\ IsDir(codebase \o << "odoo" >>)
          /\ IsDir(codebase \o << "themes" >>)
          /\ IsDir(codebase \o << "user" >>)
       THEN \E listing \in Orderings(Entries(codebase \o << "user" >>)) :
              Detected("odoo.sh",
                       [ addons_dirs |-> << codebase \o << "enterprise" >>,
                                            codebase \o << "themes" >> >>
                                         \o SelectSeq(listing, IsDir),
                         addons_dir |-> << codebase \o << "project" >> >>,
                         odoo_dir |-> << codebase \o << "odoo", "addons" >>,
                                         codebase \o << "odoo", "odoo", "addons" >> >> ])
       ELSE Declined("odoo_sh")

NotOdooNorPrivate(item) == IsDir(item) /\ Name(item) \notin { "odoo", "private" }

DoodbaDetector ==
    /\ pc = "doodba"
    /\ LET copier_answers_file == codebase \o << ".copier-answers.yml" >>
           path == codebase \o << "odoo", "custom", "src" >>
       IN  IF ~IsFile(copier_answers_file)
           THEN Declined("doodba")
           ELSE LET outcome == DoodbaAnswers(copier_answers_file)
                IN  IF outcome = "match" /\ IsDir(path)
                    THEN \E listing \in Orderings(Entries(path)) :
                           Detected("Doodba",
                                    [ addons_dirs |-> SelectSeq(listing, NotOdooNorPrivate),
                                      addons_dir |-> << path \o << "private" >> >>,
                                      odoo_dir |-> << path \o << "odoo", "addons" >>,
                                                      path \o << "odoo", "odoo", "addons" >> >> ])
                    ELSE IF outcome \in { "match", "no match" }
                    THEN Declined("doodba")
                    ELSE Raised(outcome)

GenericDetector ==
    /\ pc = "fallback"
    /\ LET manifest_files == GenericManifests(codebase)
       IN  IF manifest_files = {}
           THEN Declined("fallback")
           ELSE \E listing \in Orderings({ Parent(Parent(m)) : m \in manifest_files }) :
                  Detected("fallback",
                           [ addons_dirs |-> listing, addons_dir |-> << >>,
                             odoo_dir |-> << >> ])

\* mutant of NoLayoutDetected: the empty result is passed on instead of raising
NoLayoutIgnored ==
    /\ pc = "none"
    /\ pc' = "process"
    /\ UNCHANGED << fsvars, argvars, detector_name, detected_paths, all_paths,
                    addons_path, error, run, prev >>

\* _detect_codebase_layout, lines 26-28: no detector matched
NoLayoutDetected ==
    /\ pc = "none"
    /\ pc' = "exit"
    /\ error' = "typer.Exit(1)"
    /\ UNCHANGED << fsvars, argvars, detector_name, detected_paths, all_paths,
                    addons_path, run, prev >>

\* get_addons_path, line 86
ProcessPaths ==
    /\ pc = "process"
    /\ all_paths' = process_paths(all_paths, detected_paths, addons_dir, odoo_dir)
    /\ pc' = "return"
    /\ UNCHANGED << fsvars, argvars, detector_name, detected_paths, addons_path,
                    error, run, prev >>

\* get_addons_path, lines 88-100
Return ==
    /\ pc = "return"
    /\ addons_path' = all_paths.odoo_dir \o all_paths.addon_repositories
    /\ pc' = "done"
    /\ UNCHANGED << fsvars, argvars, detector_name, detected_paths, all_paths,
                    error, run, prev >>

Finished == pc \in { "done", "exit", "raised" }

Outcome == [ status |-> pc, addons_path |-> addons_path, error |-> error ]

\* the caller invokes get_addons_path again on the unmodified tree
Rerun ==
    /\ Finished
    /\ run < MaxRuns
    /\ run' = run + 1
    /\ prev' = Outcome
    /\ pc' = "start"
    /\ detector_name' = ""
    /\ detected_paths' = NoDetectedPaths
    /\ all_paths' = NoPaths
    /\ addons_path' = << >>
    /\ error' = ""
    /\ UNCHANGED << fsvars, argvars >>

Next ==
    \/ Start
    \/ TrobzDetector
    \/ C2CDetector
    \/ OdooShDetector
    \/ DoodbaDetector
    \/ GenericDetector
    \/ NoLayoutDetected
    \/ ProcessPaths
    \/ Return
    \/ Rerun

Spec == Init /\ [][Next]_vars

(***************************************************************************)
(* Vocabulary of the properties.                                           *)
(***************************************************************************)
\* the filesystem holds exactly tree t below the codebase root
HasTree(t) ==
    /\ dirs = Under(codebase, t.dirs) \cup Prefixes(codebase) \cup ExternalTree.dirs
    /\ files = Under(codebase, t.files) \cup ExternalTree.files
    /\ DOMAIN content = Under(codebase, DOMAIN t.content)
    /\ \A f \in DOMAIN t.content : content[codebase \o f] = t.content[f]
    /\ unreadable = Under(codebase, t.unreadable)

NoOverrides == addons_dir = << >> /\ odoo_dir = None

\* the paths test_layouts expects, relative to the root (tests, lines 16-65)
ExpectedPaths(layout) ==
    CASE layout = "trobz" ->
           << << "odoo", "addons" >>, << "odoo", "odoo", "addons" >>,
              << "addons", "custom-repo" >>, << "project" >> >>
      [] layout = "c2c" ->
           << << "odoo", "src", "addons" >>, << "odoo", "src", "odoo", "addons" >>,
              << "odoo", "external-src", "custom-repo" >>, << "odoo", "local-src" >> >>
      [] layout = "c2c-new" ->
           << << "odoo", "addons" >>, << "odoo", "external-src", "custom-repo" >>,
              << "odoo", "dev-src" >>, << "odoo", "paid-modules" >> >>
      [] layout = "doodba" ->
           << << "odoo", "custom", "src", "odoo", "addons" >>,
              << "odoo", "custom", "src", "odoo", "odoo", "addons" >>,
              << "odoo", "custom", "src", "custom-repo" >>,
              << "odoo", "custom", "src", "private" >> >>
      [] OTHER ->
           << << "odoo", "addons" >>, << "odoo", "odoo", "addons" >>,
              << "enterprise" >>, << "user", "local-src" >>, << "themes" >> >>

AtRoot(ps) == [ i \in 1..Len(ps) |-> codebase \o ps[i] ]

NotBelow(d, ps) == SelectSeq(ps, LAMBDA p : ~IsPrefix(d, p))

NoDuplicates(ps) == \A i, j \in 1..Len(ps) : ps[i] = ps[j] => i = j

(***************************************************************************)
(* C1: for every tree that follows one of the five supported conventions,  *)
(* with or without unrelated extra entries, get_addons_path(root) without  *)
(* overrides returns exactly the paths of the convention: the core         *)
(* directories in the descriptor's order, then the non-core directories;   *)
(* for the .trobz tree odoo/addons, odoo/odoo/addons, addons/custom-repo,  *)
(* project.                                                                *)
(***************************************************************************)
C1_ConventionPaths ==
    (Finished /\ NoOverrides) =>
        \A layout \in Layouts : \A S \in UnrelatedSets(layout) :
            HasTree(FixtureTree(layout, S, None))
            => /\ pc = "done"
               /\ addons_path = AtRoot(ExpectedPaths(layout))

C1_Witness ==
    /\ pc = "done"
    /\ NoOverrides
    /\ HasTree(FixtureTree("trobz", { << "README.md" >>, << "addons", "README.md" >> }, None))
    /\ addons_path = << codebase \o << "odoo", "addons" >>,
                        codebase \o << "odoo", "odoo", "addons" >>,
                        codebase \o << "addons", "custom-repo" >>,
                        codebase \o << "project" >> >>

(***************************************************************************)
(* C5: removing one subdirectory that is no part of the convention's       *)
(* fingerprint makes get_addons_path return the previous output minus the  *)
(* paths below the removed subdirectory, and never raises.                 *)
(***************************************************************************)
C5_MissingDirectoryTolerance ==
    (Finished /\ NoOverrides) =>
        \A layout \in Layouts : \A d \in Removable(layout) :
            HasTree(FixtureTree(layout, {}, d))
            => /\ pc = "done"
               /\ addons_path = AtRoot(NotBelow(d, ExpectedPaths(layout)))

(***************************************************************************)
(* C2: no directory appears twice in the list get_addons_path returns,     *)
(* whatever the tree and the overrides; deduplication is global across the *)
(* core category and the non-core category.                                *)
(***************************************************************************)
C2_NoDuplicatePaths == pc = "done" => NoDuplicates(addons_path)

(***************************************************************************)
(* The fingerprints of the conventions, read off the tree.                 *)
(***************************************************************************)
AnswersFile == codebase \o << ".copier-answers.yml" >>

TrobzFingerprint == IsDir(codebase \o << ".trobz" >>)

DoodbaFingerprint ==
    /\ IsFile(AnswersFile)
    /\ AnswersFile \notin unreadable
    /\ content[AnswersFile] = AnswersDoodba
    /\ IsDir(codebase \o << "odoo", "custom", "src" >>)

C2CFingerprint ==
    \E f \in { codebase \o << "odoo", "Dockerfile" >>, codebase \o << "Dockerfile" >> } :
        /\ f \in files
        /\ f = codebase \o << "Dockerfile" >> => codebase \o << "odoo", "Dockerfile" >> \notin files
        /\ f \notin unreadable
        /\ { C2CLabelSingle, C2CLabelDouble } \cap Range(content[f]) # {}

OdooShFingerprint ==
    \A d \in { "enterprise", "odoo", "themes", "user" } : codebase \o << d >> \in dirs

FallbackFingerprint ==
    \E m \in files : IsPrefix(codebase, m) /\ Name(m) = MANIFEST /\ "setup" \notin Range(m)

Fingerprint(c) ==
    CASE c = "trobz" -> TrobzFingerprint
      [] c = "doodba" -> DoodbaFingerprint
      [] c = "c2c" -> C2CFingerprint
      [] c = "odoo_sh" -> OdooShFingerprint
      [] OTHER -> FallbackFingerprint

\* the first convention of a priority order whose fingerprint the tree has
FirstOf(order) ==
    LET hits == { i \in 1..Len(order) : Fingerprint(order[i]) }
    IN  IF hits = {} THEN "none"
        ELSE order[CHOOSE i \in hits : \A j \in hits : i <= j]

ConventionOf(label) ==
    CASE label = "Trobz" -> "trobz"
      [] label = "Doodba" -> "doodba"
      [] label \in { "Camptocamp (Legacy)", "Camptocamp" } -> "c2c"
      [] label = "odoo.sh" -> "odoo_sh"
      [] label = "fallback" -> "fallback"
      [] OTHER -> "none"

\* the order the claim states, and the order of main.py line 24
StatedOrder == << "trobz", "doodba", "c2c", "odoo_sh", "fallback" >>

ChainOrder == << "trobz", "c2c", "odoo_sh", "doodba", "fallback" >>

(***************************************************************************)
(* C3, as stated: the label returned is that of the first convention, in   *)
(* the order .trobz, answers file (Doodba), Camptocamp Dockerfile, odoo.sh *)
(* directories, manifest scan, whose fingerprint the tree has.             *)
(***************************************************************************)
C3_StatedPriority ==
    detector_name # "" => ConventionOf(detector_name) = FirstOf(StatedOrder)

(***************************************************************************)
(* C3, amended: the label returned is that of the first convention, in the *)
(* order .trobz, Camptocamp Dockerfile, odoo.sh directories, answers file  *)
(* (Doodba), manifest scan, whose fingerprint the tree has.                *)
(***************************************************************************)
C3_ChainPriority ==
    detector_name # "" => ConventionOf(detector_name) = FirstOf(ChainOrder)

C3_Witness ==
    /\ pc = "done"
    /\ DoodbaFingerprint /\ C2CFingerprint /\ OdooShFingerprint
    /\ ~TrobzFingerprint
    /\ detector_name = "Camptocamp (Legacy)"

(***************************************************************************)
(* C4, as stated: when no detector matches, get_addons_path is not aborted *)
(* and returns the list built from the overrides: for an odoo_dir override *)
(* alone its existing <dir>/addons and <dir>/odoo/addons, for no override  *)
(* the empty list.                                                         *)
(***************************************************************************)
Unmatched == FirstOf(ChainOrder) = "none"

OverrideCandidates ==
    IF odoo_dir = None THEN << >>
    ELSE << odoo_dir \o << "addons" >>, odoo_dir \o << "odoo", "addons" >> >>

Existing(ps) == SelectSeq(ps, LAMBDA p : p \in dirs)

OverrideRepositories ==
    { Resolve(Parent(Parent(m))) :
        m \in UNION { Glob(d) : d \in { x \in Range(addons_dir) : IsDir(x) } } }

CoreDirsOf(c) ==
    CASE c \in { "trobz", "odoo_sh" } ->
           << << "odoo", "addons" >>, << "odoo", "odoo", "addons" >> >>
      [] c = "doodba" ->
           << << "odoo", "custom", "src", "odoo", "addons" >>,
              << "odoo", "custom", "src", "odoo", "odoo", "addons" >> >>
      [] c = "c2c" ->
           IF codebase \o << "odoo", "src" >> \in dirs
           THEN << << "odoo", "src", "addons" >>, << "odoo", "src", "odoo", "addons" >> >>
           ELSE << << "odoo", "addons" >> >>
      [] OTHER -> << >>

ConventionCoreDirs == AtRoot(CoreDirsOf(FirstOf(ChainOrder)))

RECURSIVE Once(_)
Once(ps) ==
    IF ps = << >> THEN << >>
    ELSE LET front == Once(SubSeq(ps, 1, Len(ps) - 1))
         IN  IF ps[Len(ps)] \in Range(front) THEN front ELSE Append(front, ps[Len(ps)])

C6_SingleCoreSource ==
    pc \in { "return", "done" }
    => all_paths.odoo_dir =
         Existing(IF odoo_dir # None THEN OverrideCandidates ELSE ConventionCoreDirs)

(***************************************************************************)
(* C6, amended: the core part of the output is the existing candidates,    *)
(* each once and in this order: first the two subpaths of the odoo_dir     *)
(* override when one is given, then the core directories of the detected   *)
(* convention, which are there only when no addons_dir override is given   *)
(* (detection is skipped otherwise).                                       *)
(***************************************************************************)
C6_BothCoreSources ==
    pc \in { "return", "done" }
    => all_paths.odoo_dir =
         Once(Existing(OverrideCandidates
                       \o (IF addons_dir = << >> THEN ConventionCoreDirs ELSE << >>)))

C6_Witness ==
    /\ pc = "done"
    /\ odoo_dir = ExternalOdoo
    /\ detector_name = "Trobz"
    /\ addons_path = << ExternalOdoo \o << "addons" >>,
                        ExternalOdoo \o << "odoo", "addons" >>,
                        codebase \o << "odoo", "addons" >>,
                        codebase \o << "odoo", "odoo", "addons" >>,
                        codebase \o << "addons", "custom-repo" >>,
                        codebase \o << "project" >> >>

(***************************************************************************)
(* C7: for a tree of no convention A-D with a manifest below the root,     *)
(* get_addons_path(root) without overrides returns exactly the distinct    *)
(* parent-of-parent directories of the qualifying manifests: those with no *)
(* "setup" segment below the root and not nested in another module; a      *)
(* "setup" segment above the root disqualifies nothing.                    *)
(***************************************************************************)
ManifestsBelowRoot == { m \in files : IsPrefix(codebase, m) /\ Name(m) = MANIFEST }

BelowRoot(m) == SubSeq(m, Len(codebase) + 1, Len(m))

NestedInModule(m) ==
    \E n \in ManifestsBelowRoot : n # m /\ IsPrefix(Parent(n), Parent(m))

Qualifies(m) == "setup" \notin Range(BelowRoot(m)) /\ ~NestedInModule(m)

C7_FallbackPaths ==
    ( /\ pc \in { "done", "exit" }
      /\ NoOverrides
      /\ ~TrobzFingerprint /\ ~DoodbaFingerprint /\ ~C2CFingerprint /\ ~OdooShFingerprint
      /\ ManifestsBelowRoot # {} )
    => /\ pc = "done"
       /\ NoDuplicates(addons_path)
       /\ Range(addons_path) = { Parent(Parent(m)) : m \in { x \in ManifestsBelowRoot : Qualifies(x) } }

(***************************************************************************)
(* C8: two runs of get_addons_path on the unmodified tree, with the same   *)
(* overrides, end the same way and return the same ordered list, whatever  *)
(* order iterdir, glob and the fallback detector's set are enumerated in.  *)
(***************************************************************************)
C8_SameOutputTwice == (run > 1 /\ Finished) => Outcome = prev

(***************************************************************************)
(* C9: without an addons_dir override the non-core paths are in ascending, *)
(* case-sensitive order of base name (odoo.sh: enterprise, user/local-src, *)
(* themes); with one, a path discovered under an earlier override          *)
(* directory precedes every path first discovered under a later one, and   *)
(* the paths of one override directory are in the ascending order of the   *)
(* manifests that discovered them.                                         *)
(***************************************************************************)
\* the override directories under which path r is discovered
DiscoveredUnder(r) ==
    { k \in 1..Len(addons_dir) :
        /\ IsDir(addons_dir[k])
        /\ \E m \in Glob(addons_dir[k]) : Resolve(Parent(Parent(m))) = r }

FirstDir(r) == CHOOSE k \in DiscoveredUnder(r) : \A j \in DiscoveredUnder(r) : k <= j

FirstManifest(r, k) ==
    LET ms == { m \in Glob(addons_dir[k]) : Resolve(Parent(Parent(m))) = r }
    IN  CHOOSE m \in ms : \A n \in ms \ {m} : PathLt(m, n)

C9_NonCoreOrder ==
    pc = "done" =>
        LET r == all_paths.addon_repositories
        IN  IF addons_dir = << >>
            THEN /\ \A i, j \in 1..Len(r) : i < j => ~NameLt(Name(r[j]), Name(r[i]))
                 /\ HasTree(Closed(Fixture("odoo-sh")))
                    => r = AtRoot(<< << "enterprise" >>, << "user", "local-src" >>,
                                     << "themes" >> >>)
                 /\ HasTree(TrobzTwoRepos)
                    => r = AtRoot(<< << "addons", "Zeta" >>, << "addons", "custom-repo" >>,
                                     << "project" >> >>)
            ELSE /\ \A i \in 1..Len(r) : DiscoveredUnder(r[i]) # {}
                 /\ \A i, j \in 1..Len(r) :
                      i < j =>
                        \/ FirstDir(r[i]) < FirstDir(r[j])
                        \/ /\ FirstDir(r[i]) = FirstDir(r[j])
                           /\ PathLt(FirstManifest(r[i], FirstDir(r[i])),
                                     FirstManifest(r[j], FirstDir(r[j])))

C9_Witness ==
    /\ pc = "done"
    /\ HasTree(TrobzTwoRepos)
    /\ addons_dir = << codebase \o << "project" >>, codebase \o << "addons" >> >>
    /\ all_paths.addon_repositories =
         << codebase \o << "project" >>, codebase \o << "addons", "Zeta" >>,
            codebase \o << "addons", "custom-repo" >> >>

(***************************************************************************)
(* C10: a detector never raises for a fingerprint file that exists but     *)
(* cannot be used: an answers file that cannot be opened or does not       *)
(* decode to a mapping with a textual _src_path, or an unreadable          *)
(* Dockerfile, makes the detector decline and hand the root to the next    *)
(* detector, as if the file were absent.                                   *)
(***************************************************************************)
UnusableAnswers ==
    /\ IsFile(AnswersFile)
    /\ \/ AnswersFile \in unreadable
       \/ content[AnswersFile] \notin { AnswersDoodba, AnswersOther }

UnreadableDockerfile ==
    \E f \in { codebase \o << "odoo", "Dockerfile" >>, codebase \o << "Dockerfile" >> } :
        f \in files /\ f \in unreadable

C10_UnusableFileDeclines ==
    [][ /\ (pc = "doodba" /\ UnusableAnswers) => pc' = "fallback"
        /\ (pc = "c2c" /\ UnreadableDockerfile) => pc' = "odoo_sh" ]_vars

====
